---- MODULE Spec2Model ----
(***************************************************************************)
(* HashVec (src/src/lib.rs): an insertion-ordered map made of two          *)
(* structures, the Entry Sequence `entries: Vec<(K, V)>` and the Key Index *)
(* `order: HashMap<u64, usize>` from a key's hash digest to its position.  *)
(*                                                                         *)
(* Positions are 0-based as in the source; TLA+ sequences are 1-based, so  *)
(* the entry at position i is entries[i + 1].  An entry (k, v) is the      *)
(* tuple <<k, v>>: entry[1] is `.0`, entry[2] is `.1`.                     *)
(***************************************************************************)
EXTENDS Integers, Sequences, FiniteSets

\* Bounds of the model: the size of the key universe and the longest Entry
\* Sequence the calls are allowed to build.
NumKeys == 4
MaxLen == 3

\* The key universe: NumKeys - 1 keys with digests of their own, and the key
\* 17, whose digest is that of key 1 (see calculate_hash).
Keys == (1..(NumKeys - 1)) \cup {17}
\* The value type is opaque to HashVec: no value is ever compared, hashed or
\* branched on.  Two values tell an overwritten value from the original.
Vals == {1, 2}
\* Positions handed to the positional operations: in and out of bounds.
Positions == 0..MaxLen

VARIABLES
    entries,    \* HashVec.entries
    order,      \* HashVec.order, a function from the digests it holds to positions
    panicked,   \* TRUE once a call has panicked (the program has aborted)
    iter,       \* the HashVecIter that borrows the HashVec, if there is one
    inserted,   \* the pairs a round-trip program has passed to insert, in order
    pc          \* the statement the crate's doc example runs next, or Off

vars == <<entries, order, panicked, iter, inserted, pc>>

-----------------------------------------------------------------------------
\* Option<T>
None == <<>>
Some(x) == <<x>>
\* The unit value returned by the operations that return nothing.
Unit == <<>>

\* calculate_hash: a deterministic function of the key alone, into a digest
\* space smaller than the key type.  The 64-bit digest is shrunk to 4 bits, so
\* that two unequal keys of the small universe share a digest (1 and 17), as
\* unequal keys of a large key type can under u64.
calculate_hash(k) == k % 16

\* HashMap::insert and HashMap::remove on the Key Index.
MapInsert(o, h, i) == [d \in (DOMAIN o) \cup {h} |-> IF d = h THEN i ELSE o[d]]
MapRemove(o, h) == [d \in (DOMAIN o) \ {h} |-> o[d]]
EmptyMap == [d \in {} |-> 0]

\* Vec::remove(i) and Vec::swap(a, b), for positions in bounds.
VecRemove(e, i) == SubSeq(e, 1, i) \o SubSeq(e, i + 2, Len(e))
VecSwap(e, a, b) == [e EXCEPT ![a + 1] = e[b + 1], ![b + 1] = e[a + 1]]

\* What a call leaves behind: the two structures, the returned value, and
\* whether the call panicked.
Ok(e, o, r) == [entries |-> e, order |-> o, ret |-> r, panic |-> FALSE]
Panic(e, o) == [entries |-> e, order |-> o, ret |-> None, panic |-> TRUE]

-----------------------------------------------------------------------------
\* The operations of HashVec, each a function of the two structures.

len(e) == Len(e)
is_empty(e) == Len(e) = 0

\* A clear that empties the Entry Sequence alone.
clear_entries_only(e, o) == Ok(<<>>, o, Unit)

clear(e, o) == Ok(<<>>, EmptyMap, Unit)

insert(e, o, k, v) ==
    LET h == calculate_hash(k) IN
    IF h \in DOMAIN o
    THEN IF o[h] < Len(e)
         THEN Ok([e EXCEPT ![o[h] + 1][2] = v], o, Unit)
         ELSE Panic(e, o)
    ELSE Ok(Append(e, <<k, v>>), MapInsert(o, h, Len(e)), Unit)

contains_key(o, k) == calculate_hash(k) \in DOMAIN o

get(e, o, k) ==
    LET h == calculate_hash(k) IN
    IF h \in DOMAIN o
    THEN IF o[h] < Len(e) THEN Ok(e, o, Some(e[o[h] + 1][2])) ELSE Panic(e, o)
    ELSE Ok(e, o, None)

\* get_mut followed by the caller's write of v through the returned reference.
get_mut(e, o, k, v) ==
    LET h == calculate_hash(k) IN
    IF h \in DOMAIN o
    THEN IF o[h] < Len(e)
         THEN Ok([e EXCEPT ![o[h] + 1][2] = v], o, Some(v))
         ELSE Panic(e, o)
    ELSE Ok(e, o, None)

index(e, o, k) ==
    LET h == calculate_hash(k) IN
    IF h \in DOMAIN o THEN Ok(e, o, Some(o[h])) ELSE Ok(e, o, None)

\* Index<usize>: hashvec[i]
index_usize(e, o, i) ==
    IF i < Len(e) THEN Ok(e, o, Some(e[i + 1])) ELSE Panic(e, o)

\* A remove_entry whose loop rewrites no record.
reindex_skipped(e, o, i) == o

\* The loop of remove_entry, from position i on: every remaining entry at a
\* position >= index has its record rewritten, in position order.
RECURSIVE Reindex(_, _, _)
Reindex(e, o, i) ==
    IF i >= Len(e) THEN o
    ELSE Reindex(e, MapInsert(o, calculate_hash(e[i + 1][1]), i), i + 1)

remove_entry(e, o, k) ==
    LET key_hash == calculate_hash(k) IN
    IF key_hash \in DOMAIN o
    THEN LET idx == o[key_hash] IN
         IF idx < Len(e)
         THEN LET value == e[idx + 1]
                  e2 == VecRemove(e, idx)
                  o2 == MapRemove(o, key_hash)
              IN  Ok(e2, Reindex(e2, o2, idx), Some(value))
         ELSE Panic(e, o)
    ELSE Ok(e, o, None)

remove(e, o, k) ==
    LET r == remove_entry(e, o, k) IN
    IF r.panic THEN r
    ELSE IF r.ret = None THEN r
    ELSE Ok(r.entries, r.order, Some(r.ret[1][2]))

\* A push that appends without removing the entry the key already has.
push_without_remove(e, o, entry) ==
    Ok(Append(e, entry), MapInsert(o, calculate_hash(entry[1]), Len(e)), Unit)

push(e, o, entry) ==
    LET r == IF contains_key(o, entry[1]) THEN remove(e, o, entry[1]) ELSE Ok(e, o, None)
        key_hash == calculate_hash(entry[1])
    IN  IF r.panic THEN Panic(r.entries, r.order)
        ELSE Ok(Append(r.entries, entry),
                MapInsert(r.order, key_hash, Len(r.entries)), Unit)

\* A pop that leaves the record of the popped entry's key in the Key Index.
pop_keeping_record(e, o) ==
    IF Len(e) = 0 THEN Ok(e, o, None)
    ELSE Ok(SubSeq(e, 1, Len(e) - 1), o, Some(e[Len(e)]))

pop(e, o) ==
    IF Len(e) = 0 THEN Ok(e, o, None)
    ELSE LET entry == e[Len(e)] IN
         Ok(SubSeq(e, 1, Len(e) - 1), MapRemove(o, calculate_hash(entry[1])), Some(entry))

\* The common tail of swap_keys and swap_indices: swap the tracked order,
\* then swap the actual entries (Vec::swap panics on a position out of bounds,
\* after the Key Index was rewritten).
SwapTracked(e, o, key_hash_a, key_hash_b) ==
    LET old_index_a == o[key_hash_a]
        old_index_b == o[key_hash_b]
        o2 == MapInsert(MapInsert(o, key_hash_a, old_index_b), key_hash_b, old_index_a)
    IN  IF old_index_a < Len(e) /\ old_index_b < Len(e)
        THEN Ok(VecSwap(e, old_index_a, old_index_b), o2, Unit)
        ELSE Panic(e, o2)

swap_keys(e, o, key_a, key_b) ==
    LET key_hash_a == calculate_hash(key_a)
        key_hash_b == calculate_hash(key_b)
        op_valid == key_hash_a \in DOMAIN o /\ key_hash_b \in DOMAIN o
    IN  IF op_valid THEN SwapTracked(e, o, key_hash_a, key_hash_b) ELSE Ok(e, o, Unit)

swap_indices(e, o, index_a, index_b) ==
    IF index_a < Len(e) /\ index_b < Len(e)
    THEN LET key_hash_a == calculate_hash(e[index_a + 1][1])
             key_hash_b == calculate_hash(e[index_b + 1][1])
         IN  IF key_hash_a \in DOMAIN o /\ key_hash_b \in DOMAIN o
             THEN SwapTracked(e, o, key_hash_a, key_hash_b)
             ELSE Panic(e, o)      \* Option::unwrap on None
    ELSE Ok(e, o, Unit)

rename(e, o, old_key, new_key) ==
    LET old_key_hash == calculate_hash(old_key) IN
    IF old_key_hash \in DOMAIN o
    THEN LET idx == o[old_key_hash] IN
         IF idx < Len(e)
         THEN LET new_key_hash == calculate_hash(new_key)
                  e2 == [e EXCEPT ![idx + 1][1] = new_key]
                  o2 == MapInsert(MapRemove(o, old_key_hash), new_key_hash, idx)
              IN  Ok(e2, o2, Some(e2[idx + 1][2]))
         ELSE Panic(e, o)
    ELSE Ok(e, o, None)

\* usize, the type of HashVecIter.index, shrunk from the target's pointer
\* width to UsizeBits bits; UsizeMax is usize::MAX.
UsizeBits == 4
UsizeMax == (2 ^ UsizeBits) - 1

\* IntoIterator for &HashVec: a HashVecIter on this HashVec, at index 0.
into_iter(e, o) == [index |-> 0]

\* HashVecIter::next: the entry at self.index if there is one, and then
\* `self.index += 1`, whatever was found.  At usize::MAX the addition
\* overflows: a build with overflow checks (the debug profile) panics, a
\* build without them (the release profile) wraps to 0.
next(e, it, overflow_checks) ==
    LET result == IF it.index < Len(e) THEN Some(e[it.index + 1]) ELSE None IN
    IF it.index = UsizeMax /\ overflow_checks
    THEN [index |-> it.index, ret |-> None, panic |-> TRUE]
    ELSE [index |-> (it.index + 1) % (UsizeMax + 1), ret |-> result, panic |-> FALSE]

-----------------------------------------------------------------------------
\* The calls a program makes on one HashVec.  A call is not made once the
\* program has aborted, and a call that would grow the Entry Sequence past
\* MaxLen is left out of the model.  A call that takes `&mut self` is not
\* made while a HashVecIter holds its shared borrow of the HashVec.

\* The value of pc in a program that is not the crate's doc example.
Off == 0

\* In each action r is what the call leaves behind, bound once by \E over a
\* singleton.

\* Whether the call that leaves r behind is made.
Made(r) == ~panicked /\ pc = Off /\ Len(r.entries) <= MaxLen

Init ==
    /\ entries = <<>>
    /\ order = EmptyMap
    /\ panicked = FALSE
    /\ iter = None
    /\ inserted = <<>>
    /\ pc = Off

Clear ==
    \E r \in {clear(entries, order)} :
    /\ Made(r)
    /\ iter = None
    /\ entries' = r.entries
    /\ order' = r.order
    /\ panicked' = r.panic
    /\ UNCHANGED <<iter, inserted, pc>>
Insert ==
    \E k \in Keys, v \in Vals :
        \E r \in {insert(entries, order, k, v)} :
        /\ Made(r)
        /\ iter = None
        /\ entries' = r.entries
        /\ order' = r.order
        /\ panicked' = r.panic
        /\ UNCHANGED <<iter, inserted, pc>>
Push ==
    \E k \in Keys, v \in Vals :
        \E r \in {push(entries, order, <<k, v>>)} :
        /\ Made(r)
        /\ iter = None
        /\ entries' = r.entries
        /\ order' = r.order
        /\ panicked' = r.panic
        /\ UNCHANGED <<iter, inserted, pc>>
Pop ==
    \E r \in {pop(entries, order)} :
    /\ Made(r)
    /\ iter = None
    /\ entries' = r.entries
    /\ order' = r.order
    /\ panicked' = r.panic
    /\ UNCHANGED <<iter, inserted, pc>>
SwapKeys ==
    \E a \in Keys, b \in Keys :
        \E r \in {swap_keys(entries, order, a, b)} :
        /\ Made(r)
        /\ iter = None
        /\ entries' = r.entries
        /\ order' = r.order
        /\ panicked' = r.panic
        /\ UNCHANGED <<iter, inserted, pc>>
SwapIndices ==
    \E i \in Positions, j \in Positions :
        \E r \in {swap_indices(entries, order, i, j)} :
        /\ Made(r)
        /\ iter = None
        /\ entries' = r.entries
        /\ order' = r.order
        /\ panicked' = r.panic
        /\ UNCHANGED <<iter, inserted, pc>>
ContainsKey ==
    \E k \in Keys :
        \E r \in {Ok(entries, order, contains_key(order, k))} :
        /\ Made(r)
        /\ entries' = r.entries
        /\ order' = r.order
        /\ panicked' = r.panic
        /\ UNCHANGED <<iter, inserted, pc>>
Get ==
    \E k \in Keys :
        \E r \in {get(entries, order, k)} :
        /\ Made(r)
        /\ entries' = r.entries
        /\ order' = r.order
        /\ panicked' = r.panic
        /\ UNCHANGED <<iter, inserted, pc>>
GetMut ==
    \E k \in Keys, v \in Vals :
        \E r \in {get_mut(entries, order, k, v)} :
        /\ Made(r)
        /\ iter = None
        /\ entries' = r.entries
        /\ order' = r.order
        /\ panicked' = r.panic
        /\ UNCHANGED <<iter, inserted, pc>>
Rename ==
    \E old \in Keys, new \in Keys :
        \E r \in {rename(entries, order, old, new)} :
        /\ Made(r)
        /\ iter = None
        /\ entries' = r.entries
        /\ order' = r.order
        /\ panicked' = r.panic
        /\ UNCHANGED <<iter, inserted, pc>>
RemoveEntry ==
    \E k \in Keys :
        \E r \in {remove_entry(entries, order, k)} :
        /\ Made(r)
        /\ iter = None
        /\ entries' = r.entries
        /\ order' = r.order
        /\ panicked' = r.panic
        /\ UNCHANGED <<iter, inserted, pc>>
Remove ==
    \E k \in Keys :
        \E r \in {remove(entries, order, k)} :
        /\ Made(r)
        /\ iter = None
        /\ entries' = r.entries
        /\ order' = r.order
        /\ panicked' = r.panic
        /\ UNCHANGED <<iter, inserted, pc>>
IndexKey ==
    \E k \in Keys :
        \E r \in {index(entries, order, k)} :
        /\ Made(r)
        /\ entries' = r.entries
        /\ order' = r.order
        /\ panicked' = r.panic
        /\ UNCHANGED <<iter, inserted, pc>>
IndexUsize ==
    \E i \in Positions :
        \E r \in {index_usize(entries, order, i)} :
        /\ Made(r)
        /\ entries' = r.entries
        /\ order' = r.order
        /\ panicked' = r.panic
        /\ UNCHANGED <<iter, inserted, pc>>

Next ==
    \/ Clear
    \/ Insert
    \/ Push
    \/ Pop
    \/ SwapKeys
    \/ SwapIndices
    \/ ContainsKey
    \/ Get
    \/ GetMut
    \/ Rename
    \/ RemoveEntry
    \/ Remove
    \/ IndexKey
    \/ IndexUsize

Spec == Init /\ [][Next]_vars

-----------------------------------------------------------------------------
\* The programs that honor the two unchecked preconditions of the container:
\* their keys have pairwise distinct digests, and they never rename onto the
\* key of a different existing entry.

\* The Entry Sequence holds an entry whose key equals k.
HasKey(e, k) == \E i \in 1..Len(e) : e[i][1] = k

\* The keys of the universe that share their digest with no smaller key.
DistinctKeys ==
    {k \in Keys : \A j \in Keys : calculate_hash(j) = calculate_hash(k) => j >= k}

\* rename(old_key, new_key) does not give an entry the key of another one.
RenameAllowed(e, old_key, new_key) ==
    HasKey(e, old_key) => \A i \in 1..Len(e) : e[i][1] = new_key => e[i][1] = old_key

InsertDistinct ==
    \E k \in DistinctKeys, v \in Vals :
        \E r \in {insert(entries, order, k, v)} :
        /\ Made(r)
        /\ iter = None
        /\ entries' = r.entries
        /\ order' = r.order
        /\ panicked' = r.panic
        /\ UNCHANGED <<iter, inserted, pc>>
PushDistinct ==
    \E k \in DistinctKeys, v \in Vals :
        \E r \in {push(entries, order, <<k, v>>)} :
        /\ Made(r)
        /\ iter = None
        /\ entries' = r.entries
        /\ order' = r.order
        /\ panicked' = r.panic
        /\ UNCHANGED <<iter, inserted, pc>>
SwapKeysDistinct ==
    \E a \in DistinctKeys, b \in DistinctKeys :
        \E r \in {swap_keys(entries, order, a, b)} :
        /\ Made(r)
        /\ iter = None
        /\ entries' = r.entries
        /\ order' = r.order
        /\ panicked' = r.panic
        /\ UNCHANGED <<iter, inserted, pc>>
GetMutDistinct ==
    \E k \in DistinctKeys, v \in Vals :
        \E r \in {get_mut(entries, order, k, v)} :
        /\ Made(r)
        /\ iter = None
        /\ entries' = r.entries
        /\ order' = r.order
        /\ panicked' = r.panic
        /\ UNCHANGED <<iter, inserted, pc>>
RenameDistinct ==
    \E old \in DistinctKeys, new \in DistinctKeys :
        \E r \in {rename(entries, order, old, new)} :
        /\ RenameAllowed(entries, old, new)
        /\ Made(r)
        /\ iter = None
        /\ entries' = r.entries
        /\ order' = r.order
        /\ panicked' = r.panic
        /\ UNCHANGED <<iter, inserted, pc>>
RemoveEntryDistinct ==
    \E k \in DistinctKeys :
        \E r \in {remove_entry(entries, order, k)} :
        /\ Made(r)
        /\ iter = None
        /\ entries' = r.entries
        /\ order' = r.order
        /\ panicked' = r.panic
        /\ UNCHANGED <<iter, inserted, pc>>
RemoveDistinct ==
    \E k \in DistinctKeys :
        \E r \in {remove(entries, order, k)} :
        /\ Made(r)
        /\ iter = None
        /\ entries' = r.entries
        /\ order' = r.order
        /\ panicked' = r.panic
        /\ UNCHANGED <<iter, inserted, pc>>

\* The mutating calls of such a program, and the positional access.
NextDistinct ==
    \/ Clear
    \/ InsertDistinct
    \/ PushDistinct
    \/ Pop
    \/ SwapKeysDistinct
    \/ SwapIndices
    \/ GetMutDistinct
    \/ RenameDistinct
    \/ RemoveEntryDistinct
    \/ RemoveDistinct
    \/ IndexUsize

SpecDistinct == Init /\ [][NextDistinct]_vars

-----------------------------------------------------------------------------
\* The programs that also iterate over the HashVec.  While it lives, iter is
\* Some of a record: the HashVecIter's index, the number of calls of next
\* made on it so far, what the last of them returned and whether it panicked,
\* and the two structures as they were when the iterator was made.

\* The calls of next followed on one iterator: one past the overflow of its
\* index.
MaxCalls == UsizeMax + 2

IntoIter ==
    /\ ~panicked
    /\ pc = Off
    /\ iter = None
    /\ iter' = Some([index |-> into_iter(entries, order).index, calls |-> 0,
                     ret |-> None, panic |-> FALSE, seen |-> <<entries, order>>])
    /\ UNCHANGED <<entries, order, panicked, inserted, pc>>
IterNext ==
    /\ ~panicked
    /\ pc = Off
    /\ iter # None
    /\ iter[1].calls < MaxCalls
    /\ \E overflow_checks \in BOOLEAN :
          LET r == next(entries, iter[1], overflow_checks) IN
          /\ iter' = Some([index |-> r.index, calls |-> iter[1].calls + 1,
                           ret |-> r.ret, panic |-> r.panic, seen |-> iter[1].seen])
          /\ panicked' = r.panic
    /\ UNCHANGED <<entries, order, inserted, pc>>
\* The iterator goes out of scope, and its borrow of the HashVec ends.
IterDrop ==
    /\ ~panicked
    /\ pc = Off
    /\ iter # None
    /\ iter' = None
    /\ UNCHANGED <<entries, order, panicked, inserted, pc>>

NextIter ==
    \/ Next
    \/ IntoIter
    \/ IterNext
    \/ IterDrop

SpecIter == Init /\ [][NextIter]_vars

-----------------------------------------------------------------------------
\* The round-trip programs: insert pairs of pairwise unequal keys into a new
\* HashVec, then iterate over it.  inserted is the sequence of the pairs
\* passed to insert.

\* Some pair of s has key k.
KeyIn(s, k) == \E i \in 1..Len(s) : s[i][1] = k

InsertNew ==
    \E k \in Keys, v \in Vals :
        \E r \in {insert(entries, order, k, v)} :
        /\ ~KeyIn(inserted, k)
        /\ Len(inserted) < MaxLen
        /\ Made(r)
        /\ iter = None
        /\ entries' = r.entries
        /\ order' = r.order
        /\ panicked' = r.panic
        /\ inserted' = Append(inserted, <<k, v>>)
        /\ UNCHANGED <<iter, pc>>

NextRoundTrip ==
    \/ InsertNew
    \/ IntoIter
    \/ IterNext
    \/ IterDrop

SpecRoundTrip == Init /\ [][NextRoundTrip]_vars

-----------------------------------------------------------------------------
\* The example of the crate documentation (lib.rs:2-81), a doc test: a
\* program makes a new HashVec and runs the example's statements on it, one
\* at a time.  Its string literals are numbered: nine keys, whose digests
\* under calculate_hash are pairwise distinct, and nine values.
Doug == 1
Skye == 2
Lee == 3
Sock == 4
Salad == 5
Finn == 6
Jake == 7
Susie == 8
Caesar == 9
Kobold == 1
Hyena == 2
Shiba == 3
Man == 4
Wolf == 5
Human == 6
Dog == 7
Squid == 8
GuineaPig == 9

\* A statement: the call it makes, and the assertion on what the call
\* returns: none; "eq", an assert_eq! of the returned value (unwrapped where
\* the example unwraps it) with `expect`; "if_some", the assert_eq! made in
\* the Some arm of a match whose None arm is empty.
Stmt(op, args, assert, expect) ==
    [op |-> op, args |-> args, assert |-> assert, expect |-> expect]

DocExample == <<
    Stmt("insert", <<Doug, Kobold>>, "none", Unit),
    Stmt("insert", <<Skye, Hyena>>, "none", Unit),
    Stmt("insert", <<Lee, Shiba>>, "none", Unit),
    Stmt("insert", <<Sock, Man>>, "none", Unit),
    Stmt("push", <<Salad, Wolf>>, "none", Unit),
    Stmt("push", <<Finn, Human>>, "none", Unit),
    Stmt("push", <<Jake, Dog>>, "none", Unit),
    Stmt("push", <<Susie, Squid>>, "none", Unit),
    Stmt("get", <<Finn>>, "if_some", Some(Human)),
    Stmt("index_usize", <<2>>, "eq", Some(<<Lee, Shiba>>)),
    Stmt("index", <<Lee>>, "eq", Some(2)),
    Stmt("len", <<>>, "eq", 8),
    Stmt("rename", <<Salad, Caesar>>, "none", Unit),
    Stmt("index_usize", <<4>>, "eq", Some(<<Caesar, Dog>>)),
    Stmt("get_mut", <<Sock, GuineaPig>>, "none", Unit),
    Stmt("get", <<Sock>>, "eq", Some(GuineaPig)),
    Stmt("remove", <<Doug>>, "none", Unit),
    Stmt("get", <<Doug>>, "eq", None),
    Stmt("swap_keys", <<Lee, Skye>>, "none", Unit),
    Stmt("index", <<Lee>>, "eq", Some(0)),
    Stmt("index", <<Skye>>, "eq", Some(1)),
    Stmt("swap_indices", <<0, 1>>, "none", Unit),
    Stmt("index_usize", <<0>>, "eq", Some(<<Skye, Hyena>>)),
    Stmt("index_usize", <<1>>, "eq", Some(<<Lee, Shiba>>)),
    Stmt("for", <<>>, "none", Unit),
    Stmt("pop", <<>>, "eq", Some(<<Susie, Squid>>)),
    Stmt("clear", <<>>, "none", Unit) >>

\* HashVec::new
new_hashvec == [entries |-> <<>>, order |-> EmptyMap]

\* What the call of statement s leaves behind on (e, o).
CallOf(s, e, o) ==
    CASE s.op = "insert" -> insert(e, o, s.args[1], s.args[2])
      [] s.op = "push" -> push(e, o, s.args)
      [] s.op = "get" -> get(e, o, s.args[1])
      [] s.op = "get_mut" -> get_mut(e, o, s.args[1], s.args[2])
      [] s.op = "index" -> index(e, o, s.args[1])
      [] s.op = "index_usize" -> index_usize(e, o, s.args[1])
      [] s.op = "len" -> Ok(e, o, len(e))
      [] s.op = "rename" -> rename(e, o, s.args[1], s.args[2])
      [] s.op = "remove" -> remove(e, o, s.args[1])
      [] s.op = "swap_keys" -> swap_keys(e, o, s.args[1], s.args[2])
      [] s.op = "swap_indices" -> swap_indices(e, o, s.args[1], s.args[2])
      [] s.op = "pop" -> pop(e, o)
      [] s.op = "clear" -> clear(e, o)

\* The assertion of statement s holds of what its call left behind.
AssertHolds(s, r) ==
    CASE s.assert = "none" -> TRUE
      [] s.assert = "eq" -> ~r.panic /\ r.ret = s.expect
      [] s.assert = "if_some" -> ~r.panic /\ (r.ret = None \/ r.ret = s.expect)

\* `let mut hashvec = HashVec::new();` (lib.rs:7) in a program that is not
\* running the example yet.
DocStart ==
    /\ ~panicked
    /\ pc = Off
    /\ iter = None
    /\ entries' = new_hashvec.entries
    /\ order' = new_hashvec.order
    /\ pc' = 1
    /\ UNCHANGED <<panicked, iter, inserted>>

\* The statement at pc.  A failed assertion panics, as a panicking call does.
\* The `for` statement makes an iterator, calls next until it returns None,
\* and drops it.
DocStep ==
    /\ ~panicked
    /\ pc \in 1..Len(DocExample)
    /\ LET s == DocExample[pc] IN
       IF s.op = "for"
       THEN IF iter = None
            THEN /\ iter' = Some([index |-> into_iter(entries, order).index, calls |-> 0,
                                  ret |-> None, panic |-> FALSE, seen |-> <<entries, order>>])
                 /\ UNCHANGED <<entries, order, panicked, inserted, pc>>
            ELSE \E overflow_checks \in BOOLEAN :
                     LET r == next(entries, iter[1], overflow_checks) IN
                     /\ panicked' = r.panic
                     /\ IF r.panic \/ r.ret # None
                        THEN /\ iter' = Some([index |-> r.index, calls |-> iter[1].calls + 1,
                                              ret |-> r.ret, panic |-> r.panic,
                                              seen |-> iter[1].seen])
                             /\ pc' = pc
                        ELSE /\ iter' = None
                             /\ pc' = pc + 1
                     /\ UNCHANGED <<entries, order, inserted>>
       ELSE LET r == CallOf(s, entries, order) IN
            /\ entries' = r.entries
            /\ order' = r.order
            /\ panicked' = (r.panic \/ ~AssertHolds(s, r))
            /\ pc' = pc + 1
            /\ UNCHANGED <<iter, inserted>>

NextDoc ==
    \/ Next
    \/ DocStart
    \/ DocStep

SpecDoc == Init /\ [][NextDoc]_vars

-----------------------------------------------------------------------------
\* append and the hashvec! macro, which examples/append.rs calls and lib.rs
\* does not define.  They are written from the specification's description:
\* append moves every entry of `other` into the receiver, in other's order,
\* with push, and leaves `other` empty; hashvec![...] is a new HashVec into
\* which the listed pairs are inserted in order.

RECURSIVE PushAll(_, _, _)
PushAll(r, other_entries, i) ==
    IF i > Len(other_entries) \/ r.panic THEN r
    ELSE PushAll(push(r.entries, r.order, other_entries[i]), other_entries, i + 1)

append(e, o, other_entries, other_order) ==
    LET r == PushAll(Ok(e, o, Unit), other_entries, 1) IN
    [entries |-> r.entries, order |-> r.order,
     other_entries |-> <<>>, other_order |-> EmptyMap, panic |-> r.panic]

RECURSIVE InsertAll(_, _, _)
InsertAll(r, pairs, i) ==
    IF i > Len(pairs) \/ r.panic THEN r
    ELSE InsertAll(insert(r.entries, r.order, pairs[i][1], pairs[i][2]), pairs, i + 1)

hashvec(pairs) == InsertAll(Ok(new_hashvec.entries, new_hashvec.order, Unit), pairs, 1)

\* The containers handed to append as `other`: those hashvec! makes of at
\* most MaxLen - 1 pairs.
Others ==
    {hashvec(pairs) : pairs \in UNION {[1..n -> Keys \X Vals] : n \in 0..(MaxLen - 1)}}

AppendOther ==
    \E other \in Others :
        \E r \in {append(entries, order, other.entries, other.order)} :
        /\ Made(r)
        /\ iter = None
        /\ entries' = r.entries
        /\ order' = r.order
        /\ panicked' = r.panic
        /\ UNCHANGED <<iter, inserted, pc>>

NextAppend ==
    \/ Next
    \/ AppendOther

SpecAppend == Init /\ [][NextAppend]_vars

-----------------------------------------------------------------------------
\* Vocabulary of the properties.

\* The positions of the entries of e whose key equals k.
PositionsOf(e, k) == {i \in 0..(Len(e) - 1) : e[i + 1][1] = k}

\* No two entries of e have equal keys.
UniqueKeys(e) == \A i \in 1..Len(e), j \in 1..Len(e) : e[i][1] = e[j][1] => i = j

\* The Key Index has one record per entry, and the record under each entry's
\* key hash is that entry's position.
InSync(e, o) ==
    /\ Cardinality(DOMAIN o) = Len(e)
    /\ \A i \in 0..(Len(e) - 1) :
          LET h == calculate_hash(e[i + 1][1]) IN h \in DOMAIN o /\ o[h] = i

\* C1: after each call of a mutating operation, on a HashVec that started
\* empty, the Key Index has exactly as many records as the Entry Sequence has
\* entries, and the record under hash(entries[i].key) equals i for every i.
C1_IndexInSync == ~panicked => InSync(entries, order)

\* What C2 says of removing the entry at position p of (e, o) by its key,
\* r being what the call leaves behind.
RemovedAt(e, o, p, r) ==
    LET n == Len(e)
        k == e[p + 1][1]
    IN  /\ ~r.panic
        /\ Len(r.entries) = n - 1
        /\ \A i \in 0..(p - 1) : r.entries[i + 1] = e[i + 1]
        /\ \A i \in (p + 1)..(n - 1) : r.entries[i] = e[i + 1]
        /\ \A i \in 0..(n - 2) :
              /\ get(r.entries, r.order, r.entries[i + 1][1]) = Ok(r.entries, r.order, Some(r.entries[i + 1][2]))
              /\ index(r.entries, r.order, r.entries[i + 1][1]) = Ok(r.entries, r.order, Some(i))
        /\ get(r.entries, r.order, k) = Ok(r.entries, r.order, None)
        /\ index(r.entries, r.order, k) = Ok(r.entries, r.order, None)

\* C2: removing the entry at position p by its key (remove_entry, remove)
\* returns that entry (its value), leaves the entries before p in place, moves
\* every entry after p one position down, every remaining key is retrievable
\* at its new position, and the removed key is absent.  Stated of the
\* containers whose keys are pairwise unequal, where "its key" names one entry.
C2_RemoveShiftsDown ==
    (~panicked /\ UniqueKeys(entries)) =>
        \A p \in 0..(Len(entries) - 1) :
            LET k == entries[p + 1][1]
                re == remove_entry(entries, order, k)
                rm == remove(entries, order, k)
            IN  /\ RemovedAt(entries, order, p, re)
                /\ re.ret = Some(entries[p + 1])
                /\ RemovedAt(entries, order, p, rm)
                /\ rm.ret = Some(entries[p + 1][2])

\* C3: insert(k, v) is an in-place upsert: with an entry of key k present, the
\* value of that entry becomes v and nothing else changes; with none present,
\* (k, v) is appended at position len and index(k) returns that position.
C3_InsertUpsert ==
    ~panicked =>
        \A k \in Keys, v \in Vals :
            LET r == insert(entries, order, k, v) IN
            /\ ~r.panic
            /\ HasKey(entries, k) =>
                  \E p \in PositionsOf(entries, k) :
                      /\ r.entries = [entries EXCEPT ![p + 1] = <<k, v>>]
                      /\ index(r.entries, r.order, k).ret = Some(p)
                      /\ index(entries, order, k).ret = Some(p)
            /\ ~HasKey(entries, k) =>
                  /\ r.entries = Append(entries, <<k, v>>)
                  /\ index(r.entries, r.order, k).ret = Some(Len(entries))

\* C4: push((k, v)) with key k present moves the entry to the final position
\* with value v: the length is unchanged, index(k) = len - 1, the entries
\* before the old position stay, those after it move one position down.
\* Stated of the containers whose keys are pairwise unequal.
C4_PushRelocates ==
    (~panicked /\ UniqueKeys(entries)) =>
        \A k \in Keys, v \in Vals :
            HasKey(entries, k) =>
                LET r == push(entries, order, <<k, v>>)
                    n == Len(entries)
                IN  /\ ~r.panic
                    /\ Len(r.entries) = n
                    /\ index(r.entries, r.order, k).ret = Some(n - 1)
                    /\ r.entries[n] = <<k, v>>
                    /\ \E p \in PositionsOf(entries, k) :
                          /\ \A i \in 0..(p - 1) : r.entries[i + 1] = entries[i + 1]
                          /\ \A i \in (p + 1)..(n - 1) : r.entries[i] = entries[i + 1]

\* What C5 says of rename(old, new) on (e, o).
Renamed(e, o, old, new) ==
    LET r == rename(e, o, old, new) IN
    /\ ~r.panic
    /\ get(r.entries, r.order, old).ret = None
    /\ get(e, o, old).ret # None
    /\ get(r.entries, r.order, new).ret = get(e, o, old).ret
    /\ index(r.entries, r.order, new).ret = index(e, o, old).ret

\* C5: after rename(old, new) on a container that holds old, get(old) is
\* absent, get(new) returns the value old had, and index(new) equals the
\* index(old) of before the call.  Stated of the renames to another key
\* (after rename(k, k) the key k is of course still present).
C5_RenameMovesLookup ==
    ~panicked =>
        \A old \in Keys, new \in Keys :
            (HasKey(entries, old) /\ new # old) => Renamed(entries, order, old, new)

\* C6: an operation that refers to something absent has no effect: remove and
\* remove_entry of an absent key and rename of an absent old key return None,
\* swap_keys with an absent key, swap_indices with a position >= len and pop
\* on an empty container leave both structures as they were.
C6_AbsentNoEffect ==
    ~panicked =>
        /\ \A k \in Keys :
              ~HasKey(entries, k) =>
                  /\ remove_entry(entries, order, k) = Ok(entries, order, None)
                  /\ remove(entries, order, k) = Ok(entries, order, None)
                  /\ \A new \in Keys : rename(entries, order, k, new) = Ok(entries, order, None)
        /\ \A a \in Keys, b \in Keys :
              (~HasKey(entries, a) \/ ~HasKey(entries, b)) =>
                  swap_keys(entries, order, a, b) = Ok(entries, order, Unit)
        /\ \A i \in Positions, j \in Positions :
              (i >= Len(entries) \/ j >= Len(entries)) =>
                  swap_indices(entries, order, i, j) = Ok(entries, order, Unit)
        /\ Len(entries) = 0 => pop(entries, order) = Ok(entries, order, None)

\* No call of an operation other than the positional access panics.
NoPanicButIndexUsize(e, o) ==
    /\ \A k \in Keys, v \in Vals :
          /\ ~insert(e, o, k, v).panic
          /\ ~push(e, o, <<k, v>>).panic
          /\ ~get_mut(e, o, k, v).panic
    /\ ~pop(e, o).panic
    /\ ~clear(e, o).panic
    /\ \A k \in Keys :
          /\ ~remove(e, o, k).panic
          /\ ~remove_entry(e, o, k).panic
          /\ ~get(e, o, k).panic
          /\ ~index(e, o, k).panic
    /\ \A a \in Keys, b \in Keys :
          /\ ~rename(e, o, a, b).panic
          /\ ~swap_keys(e, o, a, b).panic
    /\ \A i \in Positions, j \in Positions : ~swap_indices(e, o, i, j).panic

\* C7: after any sequence of calls, the only call that can panic is the
\* positional access hashvec[i] with i >= len.
C7_OnlyIndexUsizePanics ==
    ~panicked =>
        /\ NoPanicButIndexUsize(entries, order)
        /\ \A i \in Positions : index_usize(entries, order, i).panic => i >= Len(entries)

\* C8: contains_key(k) is true if and only if the Entry Sequence holds an
\* entry whose key equals k, and get(k) and index(k) return Some exactly then.
C8_ContainsIffHeld ==
    ~panicked =>
        \A k \in Keys :
            /\ contains_key(order, k) <=> HasKey(entries, k)
            /\ ~get(entries, order, k).panic
            /\ get(entries, order, k).ret # None <=> HasKey(entries, k)
            /\ index(entries, order, k).ret # None <=> HasKey(entries, k)

\* C9: swap_keys(a, b) twice, and swap_indices(i, j) twice, restore the Entry
\* Sequence and the Key Index, for any keys and any positions.
C9_SwapTwiceRestores ==
    ~panicked =>
        /\ \A a \in Keys, b \in Keys :
              LET r1 == swap_keys(entries, order, a, b)
                  r2 == swap_keys(r1.entries, r1.order, a, b)
              IN  ~r1.panic /\ r2 = Ok(entries, order, Unit)
        /\ \A i \in Positions, j \in Positions :
              LET r1 == swap_indices(entries, order, i, j)
                  r2 == swap_indices(r1.entries, r1.order, i, j)
              IN  ~r1.panic /\ r2 = Ok(entries, order, Unit)

\* What C10 says of a swap of (e, o) that left r behind: the entries at
\* positions pa and pb, of keys ka and kb, are exchanged, each key's record
\* points at the other's old position, and nothing else has changed.
Exchanged(e, o, r, pa, pb) ==
    LET ka == e[pa + 1][1]
        kb == e[pb + 1][1]
    IN  /\ ~r.panic
        /\ r.entries = VecSwap(e, pa, pb)
        /\ index(r.entries, r.order, ka).ret = Some(pb)
        /\ index(r.entries, r.order, kb).ret = Some(pa)
        /\ DOMAIN r.order = DOMAIN o
        /\ \A d \in (DOMAIN o) \ {calculate_hash(ka), calculate_hash(kb)} : r.order[d] = o[d]

\* C10: swap_keys(a, b) with both keys present, and swap_indices(i, j) with
\* both positions in bounds, exchange exactly the two entries concerned.
\* Stated of the containers whose keys are pairwise unequal.
C10_SwapExchangesTwo ==
    (~panicked /\ UniqueKeys(entries)) =>
        /\ \A a \in Keys, b \in Keys :
              (HasKey(entries, a) /\ HasKey(entries, b)) =>
                  \E pa \in PositionsOf(entries, a), pb \in PositionsOf(entries, b) :
                      Exchanged(entries, order, swap_keys(entries, order, a, b), pa, pb)
        /\ \A i \in 0..(Len(entries) - 1), j \in 0..(Len(entries) - 1) :
              Exchanged(entries, order, swap_indices(entries, order, i, j), i, j)

\* C11: pop() on a non-empty container removes and returns the entry at
\* position len - 1 and drops the record under that entry's key hash, so that
\* the key is afterwards absent (contains_key false, get and index None; with
\* pairwise unequal keys no entry holds it either); every other entry and
\* every other record is unchanged, and the length decreases by exactly one.
C11_PopRemovesLast ==
    (~panicked /\ Len(entries) > 0) =>
        LET n == Len(entries)
            k == entries[n][1]
            r == pop(entries, order)
        IN  /\ ~r.panic
            /\ r.ret = Some(entries[n])
            /\ len(r.entries) = n - 1
            /\ \A i \in 1..(n - 1) : r.entries[i] = entries[i]
            /\ DOMAIN r.order = (DOMAIN order) \ {calculate_hash(k)}
            /\ \A d \in DOMAIN r.order : r.order[d] = order[d]
            /\ ~contains_key(r.order, k)
            /\ get(r.entries, r.order, k) = Ok(r.entries, r.order, None)
            /\ index(r.entries, r.order, k) = Ok(r.entries, r.order, None)
            /\ UniqueKeys(entries) => ~HasKey(r.entries, k)

\* A full container whose last key has a record, and whose pop drops it while
\* other records remain.
C11_PopWitness ==
    /\ ~panicked
    /\ Len(entries) = MaxLen
    /\ contains_key(order, entries[MaxLen][1])
    /\ pop(entries, order).ret = Some(entries[MaxLen])
    /\ ~contains_key(pop(entries, order).order, entries[MaxLen][1])
    /\ DOMAIN pop(entries, order).order # {}

\* C15: clear() from any reachable state empties both structures: afterwards
\* len() is 0, is_empty() is true, every key is absent (contains_key false,
\* get and index None), and a following insert or push places its entry at
\* position 0.
C15_ClearEmptiesBoth ==
    ~panicked =>
        LET r == clear(entries, order) IN
        /\ ~r.panic
        /\ r.entries = <<>>
        /\ DOMAIN r.order = {}
        /\ len(r.entries) = 0
        /\ is_empty(r.entries)
        /\ \A k \in Keys :
              /\ ~contains_key(r.order, k)
              /\ get(r.entries, r.order, k) = Ok(r.entries, r.order, None)
              /\ index(r.entries, r.order, k) = Ok(r.entries, r.order, None)
        /\ \A k \in Keys, v \in Vals :
              LET i == insert(r.entries, r.order, k, v)
                  p == push(r.entries, r.order, <<k, v>>)
              IN  /\ ~i.panic /\ ~p.panic
                  /\ i.entries = <<<<k, v>>>>
                  /\ p.entries = <<<<k, v>>>>
                  /\ index(i.entries, i.order, k).ret = Some(0)
                  /\ index(p.entries, p.order, k).ret = Some(0)
                  /\ index_usize(i.entries, i.order, 0).ret = Some(<<k, v>>)
                  /\ index_usize(p.entries, p.order, 0).ret = Some(<<k, v>>)

\* A full container with records, which clear empties.
C15_ClearWitness ==
    /\ ~panicked
    /\ Len(entries) = MaxLen
    /\ Cardinality(DOMAIN order) = MaxLen
    /\ clear(entries, order).entries = <<>>
    /\ DOMAIN clear(entries, order).order = {}

\* Every record of the Key Index names a position in bounds, and the key of
\* the entry at that position has the record's digest.
RecordsValid(e, o) ==
    \A h \in DOMAIN o : o[h] < Len(e) /\ calculate_hash(e[o[h] + 1][1]) = h

\* C17: with no precondition on rename or on hash collisions, after any
\* sequence of calls every record (digest h -> position i) has i < len and
\* hash(entries[i].key) = h, so get, get_mut, insert, rename, remove_entry and
\* swap_keys never index the Entry Sequence out of bounds.
C17_RecordsValid ==
    ~panicked =>
        /\ RecordsValid(entries, order)
        /\ \A k \in Keys, v \in Vals :
              /\ ~get(entries, order, k).panic
              /\ ~get_mut(entries, order, k, v).panic
              /\ ~insert(entries, order, k, v).panic
              /\ ~remove_entry(entries, order, k).panic
        /\ \A a \in Keys, b \in Keys :
              /\ ~rename(entries, order, a, b).panic
              /\ ~swap_keys(entries, order, a, b).panic

\* A container rename and a removal have put out of sync (an entry without a
\* record, after entries were moved down), whose records are still valid.
C17_RecordsValidWitness ==
    /\ ~panicked
    /\ ~InSync(entries, order)
    /\ Len(entries) >= 2
    /\ DOMAIN order # {}
    /\ RecordsValid(entries, order)

\* What C18 says of insert(k2, v) on (e, o) holding an entry of key k1.
Collided(e, o, k1, k2, v) ==
    LET r == insert(e, o, k2, v) IN
    /\ ~r.panic
    /\ Len(r.entries) = Len(e)
    /\ \E p \in PositionsOf(e, k1) : r.entries = [e EXCEPT ![p + 1] = <<k1, v>>]
    /\ contains_key(r.order, k2)
    /\ get(r.entries, r.order, k2).ret = Some(v)
    /\ ~HasKey(r.entries, k2)

\* C18: if two unequal keys k1 and k2 have the same hash digest and k1 is
\* present (an entry holds it, and none holds k2), insert(k2, v) adds no
\* entry: the length is unchanged, the entry keeps key k1 with its value
\* overwritten by v, contains_key(k2) is true and get(k2) returns v although
\* no entry with key k2 exists.
C18_HashAsIdentity ==
    ~panicked =>
        \A k1 \in Keys, k2 \in Keys, v \in Vals :
            (/\ k1 # k2
             /\ calculate_hash(k1) = calculate_hash(k2)
             /\ HasKey(entries, k1)
             /\ ~HasKey(entries, k2)) => Collided(entries, order, k1, k2, v)

\* The state a call leaves behind, without the returned value.
StateOf(r) == <<r.entries, r.order, r.panic>>

\* remove(k) followed by insert(k, v).
RemoveThenInsert(e, o, k, v) ==
    LET r == remove(e, o, k) IN
    IF r.panic THEN r ELSE insert(r.entries, r.order, k, v)

\* The entry at the final position of e has key k.
IsLast(e, k) == Len(e) > 0 /\ e[Len(e)][1] = k

\* C20: from any state with pairwise unequal keys and a Key Index in sync,
\* push((k, v)) leaves the same Entry Sequence and Key Index as remove(k)
\* followed by insert(k, v); when no entry holds k, push((k, v)) and
\* insert(k, v) leave identical states; and the two differ only when an entry
\* holds k and it is not the last one.
C20_PushIsRemoveInsert ==
    (~panicked /\ UniqueKeys(entries) /\ InSync(entries, order)) =>
        \A k \in Keys, v \in Vals :
            LET p == push(entries, order, <<k, v>>)
                i == insert(entries, order, k, v)
            IN  /\ StateOf(p) = StateOf(RemoveThenInsert(entries, order, k, v))
                /\ ~HasKey(entries, k) => StateOf(p) = StateOf(i)
                /\ StateOf(p) # StateOf(i) => (HasKey(entries, k) /\ ~IsLast(entries, k))

\* C16: provided that distinct keys have distinct digests and that rename is
\* never called with a new key equal to the key of a different existing
\* entry, after any sequence of insert, push, pop, remove, rename, swap_keys,
\* swap_indices and clear no two entries share an equal key, the Key Index has
\* exactly one record per entry, and the record under each entry's key hash
\* equals that entry's position.
C16_DisciplinedInSync ==
    /\ UniqueKeys(entries)
    /\ InSync(entries, order)

\* A container of two entries out of key order, one of which an allowed
\* rename gives a new key, the result being in sync.
C16_DisciplinedWitness ==
    /\ ~panicked
    /\ Len(entries) = 2
    /\ entries[1][1] > entries[2][1]
    /\ \E old \in DistinctKeys, new \in DistinctKeys :
          /\ new # old
          /\ HasKey(entries, old)
          /\ RenameAllowed(entries, old, new)
          /\ HasKey(rename(entries, order, old, new).entries, new)
          /\ InSync(rename(entries, order, old, new).entries, rename(entries, order, old, new).order)

\* What the c-th call of next on a fresh iterator over e is to return.
Yield(e, c) == IF c <= Len(e) THEN Some(e[c]) ELSE None

\* C19: iteration over a container in any reachable state is finite, ordered
\* and non-mutating: the i-th call of next on a fresh iterator returns the
\* entry at position i - 1 for i <= len, and None on the call after the last
\* pair and on every later call; no call panics; the Entry Sequence and the
\* Key Index are as they were when the iterator was made; and so a second
\* fresh iterator yields the same.
C19_IterationFiniteOrdered ==
    iter # None =>
        LET it == iter[1] IN
        /\ it.seen = <<entries, order>>
        /\ it.calls >= 1 =>
              /\ ~it.panic
              /\ it.ret = Yield(entries, it.calls)

\* C12: starting from an empty container, inserting n pairs of distinct keys
\* with insert and then iterating yields exactly those n pairs, in insertion
\* order, and nothing else: the i-th call of next returns the i-th pair
\* inserted, and the call after the n-th returns None.
C12_RoundTrip ==
    iter # None =>
        LET it == iter[1] IN
        (it.calls >= 1 /\ it.calls <= Len(inserted) + 1) =>
            /\ ~it.panic
            /\ it.ret = Yield(inserted, it.calls)

\* C13: running the statements of the crate's doc example in order, every
\* assertion written in it holds: whenever the example is about to run a
\* statement, no call or assertion before it has panicked, and the assertion
\* of that statement holds of what its call returns.
C13_DocExampleAsserts ==
    pc \in 1..Len(DocExample) =>
        /\ ~panicked
        /\ DocExample[pc].op # "for" =>
              AssertHolds(DocExample[pc], CallOf(DocExample[pc], entries, order))

\* The entries of e whose key no entry of other_entries has, in order.
Kept(e, other_entries) == SelectSeq(e, LAMBDA x : ~KeyIn(other_entries, x[1]))

\* C14: append(other) transfers every entry of `other` into the receiver, in
\* other's order, with push semantics: an entry whose key the receiver has
\* replaces the receiver's entry and sits at the end, the others are
\* appended (so the receiver's entries of other keys stay, in order, before
\* other's entries); `other` is left valid, without the moved entries; and
\* both containers satisfy the Entry Sequence / Key Index invariants.  Stated
\* of receivers and others that satisfy the invariants before the call.
C14_AppendPushesAll ==
    (~panicked /\ UniqueKeys(entries) /\ InSync(entries, order)) =>
        \A other \in Others :
            (UniqueKeys(other.entries) /\ InSync(other.entries, other.order)) =>
                LET r == append(entries, order, other.entries, other.order) IN
                /\ ~r.panic
                /\ r.entries = Kept(entries, other.entries) \o other.entries
                /\ UniqueKeys(r.entries)
                /\ InSync(r.entries, r.order)
                /\ r.other_entries = <<>>
                /\ InSync(r.other_entries, r.other_order)

-----------------------------------------------------------------------------
TypeOK ==
    /\ pc = Off => entries \in Seq(Keys \X Vals)
    /\ pc = Off => Len(entries) <= MaxLen
    /\ pc = Off => DOMAIN order \subseteq {calculate_hash(k) : k \in Keys}
    /\ pc # Off => entries \in Seq((Doug..Caesar) \X (Kobold..GuineaPig))
    /\ \A d \in DOMAIN order : order[d] \in Nat
    /\ panicked \in BOOLEAN
    /\ inserted \in Seq(Keys \X Vals)
    /\ pc \in {Off} \cup (1..(Len(DocExample) + 1))
    /\ iter = None \/ (iter[1].index \in 0..UsizeMax /\ iter[1].calls \in 0..MaxCalls)

====
